---- MODULE Spec2Model ----
(***************************************************************************)
(* Button / animation / feature-dispatch coordination of the Raspberry Pi  *)
(* assistant.  Two source variants are modelled:                            *)
(*   anti3      src/anti3/assistant: gpiod edge events, ButtonHandler with  *)
(*              the _busy lock, Controller callbacks, EyeAnimation thread.  *)
(*   assistant  src/assistant: polling ButtonListener that puts ButtonEvent *)
(*              on a queue, Controller.handle_event, AnimationManager.run.  *)
(* The variable `variant` says which program is running; the actions of a  *)
(* variant are enabled only under it.                                      *)
(***************************************************************************)
EXTENDS Integers, Sequences, FiniteSets, TLC

VARIABLES
    variant,       \* which program runs: "anti3" | "listener" | "assistant"
    \* ---- anti3: main thread, hardware, ButtonHandler
    mpc,           \* position of main() (src/anti3/assistant/main.py)
    request,       \* ButtonHandler._request is not None (lines were requested)
    level,         \* physical line of each button: TRUE = pressed (LOW)
    edges,         \* edge events buffered for the line request, oldest first
    pc,            \* position of the _poll_events thread
    event,         \* the edge event _handle_event is handling
    busy,          \* ButtonHandler._busy is locked
    k1_pressed,    \* ButtonHandler._k1_pressed
    releaseError,  \* Lock.release() raised RuntimeError (release of a free lock)
    exc,           \* an exception is propagating in the poll thread
    loc,           \* locals of the running Controller handler
    recording,     \* AudioRecorder._recording
    \* ---- anti3: EyeAnimation and the display
    running,       \* EyeAnimation._running (the Event is set)
    alive,         \* EyeAnimation._alive
    apc,           \* position of the EyeAnimation._loop thread
    ai,            \* loop index of _look_left / _look_right / _blink
    oled,          \* display: who wrote last, and what
    \* ---- assistant: Controller (src/assistant/controller.py)
    cpc,           \* position of the thread that called handle_event
    pause_event,   \* AnimationManager._pause_event is set
    \* ---- listener: ButtonListener (src/assistant/hardware/buttons.py)
    lpc,           \* position of ButtonListener.run
    lst,           \* the listener's fields and the rest of its current sleep
    put,           \* events put on event_queue for the current press, by type
    press,         \* the current physical press of K1 and of K3
    line,          \* the contact that bounces: which button, the position it
                   \* settles in, ticks since it moved ("none": no bounce);
                   \* and whether the pins can be read
    \* ---- mark69: main(), ButtonHandler, EyeDisplay (src/mark69/assistant)
    m69,           \* StateManager._state, the poll loop's memory of the
                   \* buttons, the recording, the worker threads, the eye loop
    \* ---- rpi5: main.py, Controller, ButtonManager, AppState
    \* (src/rpi5-assistant)
    r5,            \* the main thread's position, the subsystems, system_state,
                   \* the recorder, the poll thread, the event queue
    \* ---- assistant: StateManager and EventBus (src/assistant/core)
    bus,           \* the stored state, the handlers, the calls under way
    \* ---- anti3: EyeAnimation driven directly
    last_call      \* the last direct call of pause() / resume() / stop(),
                   \* where the _loop thread was then, and the join of stop()

vars == <<variant, mpc, request, level, edges, pc, event, busy, k1_pressed,
          releaseError, exc, loc, recording, running, alive, apc, ai,
          oled, cpc, pause_event, lpc, lst, put, press, line, m69, r5, bus,
          last_call>>

\* ------------------------------------------------------------------ bounds
MaxCalls == 2      \* set_state calls that change the state
MaxHandlers == 2   \* subscriptions to STATE_CHANGED at a time
MaxEnqueued == 4   \* events the model lets be enqueued on AppState
MaxPriority == 2   \* priorities of events are 0..MaxPriority
MaxEdges == 1      \* edge events the model lets the line request buffer
MaxWorkers == 2    \* worker threads of mark69 the model lets live at a time

\* ------------------------------------------------------- program constants
LookSteps == 8     \* steps of _look_left / _look_right
BlinkSteps == 3    \* steps of each half of _blink

K1 == "K1"
K2 == "K2"
K3 == "K3"
Buttons == {K1, K2, K3}
\* a text is the sequence of its characters; these are the fragments the
\* language model may yield (a token often begins with a blank)
Frags == {<<" ", "H", "e", "l">>, <<"l", "o">>}
MaxFrags == 2      \* fragments the model lets one generation yield

\* ButtonEventType
EventTypes == {"K2_OBJECT_DETECT", "K3_SHORT_CAPTURE", "K1_LONG_CHAT_START",
               "K1_LONG_CHAT_END"}

NoEvent == [line |-> "none", type |-> "none", holder |-> "none"]
NoLocals == [labels |-> "unset", audio_path |-> "unset", text |-> "unset",
             full_response |-> <<>>,
             \* of the chat response: the tokens llm.chat yielded, how its
             \* loop ended, the texts passed to show_text_streaming and to
             \* tts.speak
             tokens |-> <<>>, stream |-> "none", updates |-> <<>>,
             spoken |-> <<>>]

\* ---------------------------------------------------------------------- Init
\* what dequeue_event returns on an empty queue (None), as an event that is
\* none of the enqueued ones
None == [priority |-> -1, id |-> 0]

\* rpi5: main() has registered signal_handler and made MultimodalAssistant
\* (main.py:54-59, 164-168); AppState() (core/state.py:52-84),
\* ButtonManager (hardware/buttons.py:38-43), AudioRecorder._recording
Rpi5Start ==
    [main |-> "init", animation |-> "none", handles |-> "none",
     polling |-> FALSE, shutdowns |-> 0,
     system_state |-> "idle", recording |-> FALSE,
     button_states |-> [b \in {"K1", "K2", "K3"} |-> FALSE], at |-> "K1",
     event_queue |-> <<>>, enqueued |-> 0,
     got |-> [called |-> FALSE, event |-> None, before |-> <<>>]]

\* the threads that call StateManager.set_state, the handlers that may be
\* subscribed to STATE_CHANGED, the states set
Callers == 1..2
Handlers == {"h1", "h2"}
States == {"idle", "listening", "thinking"}

\* a caller that is in no call
NoCall == [pc |-> "idle", old |-> "idle", new |-> "idle", handlers |-> <<>>,
           at_call |-> <<>>, i |-> 0, called |-> <<>>]

\* assistant core: StateManager(event_bus) (state_manager.py:26-30) and
\* EventBus() (event_bus.py:33-37), with one handler subscribed to
\* STATE_CHANGED; calls counts the set_state calls that changed the state.
\* Of the events handler h1 was called with: the last one, and whether each
\* one's "old" was the "new" of the one before
BusStart ==
    [state |-> "idle", handlers |-> <<"h1">>,
     caller |-> [t \in Callers |-> NoCall],
     calls |-> 0,
     last |-> [any |-> FALSE, old |-> "idle", new |-> "idle"],
     chained |-> TRUE]

\* every object as its constructor leaves it, no thread started yet; eye is
\* where the eye thread of mark69 stands once started, pressed the field
\* _k1_pressed of the anti3 ButtonHandler
ConstructedWith(eye, pressed) ==
    /\ mpc = "boot"
    /\ request = FALSE
    /\ level = [b \in Buttons |-> FALSE]
    /\ edges = <<>>
    /\ pc = "unstarted"
    /\ event = NoEvent
    /\ busy = FALSE
    /\ k1_pressed = pressed
    /\ releaseError = FALSE
    /\ exc = FALSE
    /\ loc = NoLocals
    /\ recording = FALSE
    /\ running = TRUE
    /\ alive = TRUE
    /\ apc = "unstarted"
    /\ ai = 0
    /\ oled = [by |-> "none", text |-> <<>>]
    /\ cpc = "idle"
    /\ pause_event = FALSE
    /\ lpc = "k1"
    /\ lst = [k1_pressed |-> FALSE, k1_age |-> 0, k1_long_sent |-> FALSE,
              k3_pressed |-> FALSE, k3_age |-> 0, sleep |-> 0,
              \* of event_queue: the last K1 event put, and whether every K1
              \* event so far came in turn (START first, then END, ...)
              k1_last |-> "none", k1_alt |-> TRUE]
    /\ put = [t \in EventTypes |-> 0]
    /\ press = [b \in {K1, K3} |-> [phase |-> "none", held |-> 0]]
    /\ m69 = [state |-> "idle", was |-> [b \in Buttons |-> FALSE],
              rec |-> FALSE, wav |-> FALSE,
              workers |-> [i \in 1..MaxWorkers |-> "free"], eye |-> eye]
    /\ last_call = [op |-> "none", at |-> "unstarted", paused |-> FALSE,
                    join |-> "none"]
    /\ r5 = Rpi5Start
    /\ bus = BusStart

\* the eye thread of mark69 has drawn its first frame and is in its loop;
\* buttons.py:34  self._k1_pressed = False
Constructed == ConstructedWith("read", FALSE)

\* no contact is followed for bounce: every level change is a clean one
NoBounce == [button |-> "none", down |-> FALSE, since |-> 0, reads |-> "ok"]

InitAnti3 == variant = "anti3" /\ Constructed /\ line = NoBounce
InitAssistant == variant = "assistant" /\ Constructed /\ line = NoBounce
InitListener == variant = "listener" /\ Constructed /\ line = NoBounce

gateVars == <<busy, k1_pressed, releaseError>>
pollVars == <<pc, event, exc, loc, recording>>
animVars == <<running, alive, apc, ai>>
otherVariants == <<cpc, pause_event, lpc, lst, put, press, line, m69, r5, bus,
                   last_call>>

\* OLEDDisplay.show_text / show_text_streaming / clear: one write to the panel;
\* the text is a sequence (a message as one piece, a streamed response as its
\* characters)
Write(who, text) == oled' = [by |-> who, text |-> text]

\* ------------------------------------------------------------ anti3: main()
othersOfMain == <<level, edges, event, busy, k1_pressed, releaseError, exc,
                  loc, recording, running, alive, ai, cpc, pause_event, lpc,
                  lst, put, press, line, m69, r5, bus, last_call>>

\* main.py:35-38  OLEDDisplay(); oled.show_text("Booting...")
MainBoot ==
    /\ variant = "anti3" /\ mpc = "boot"
    /\ Write("main", <<"Booting...">>)
    /\ mpc' = "load"
    /\ UNCHANGED <<variant, request, pc, apc>> /\ UNCHANGED othersOfMain

\* main.py:40-86  EyeAnimation(oled), models, audio, Controller; the last
\* loading message left on the panel is "Loading\nAudio..."
MainLoad ==
    /\ variant = "anti3" /\ mpc = "load"
    /\ Write("main", <<"Loading Audio...">>)
    /\ mpc' = "buttons"
    /\ UNCHANGED <<variant, request, pc, apc>> /\ UNCHANGED othersOfMain

\* main.py:92-99 with ButtonHandler.__init__ / _init_gpio: either the lines are
\* requested and the polling thread starts, or no chip / an exception leaves
\* _request None and no thread
MainButtons ==
    /\ variant = "anti3" /\ mpc = "buttons"
    /\ \E ok \in BOOLEAN :
          /\ request' = ok
          /\ pc' = IF ok THEN "poll" ELSE "unstarted"
    /\ mpc' = "anim"
    /\ UNCHANGED <<variant, apc, oled>> /\ UNCHANGED othersOfMain

\* main.py:105-106  animation.start(): the _loop thread begins
MainAnimStart ==
    /\ variant = "anti3" /\ mpc = "anim"
    /\ apc' = "init"
    /\ mpc' = "ready"
    /\ UNCHANGED <<variant, request, pc, oled>> /\ UNCHANGED othersOfMain

\* main.py:112-113  oled.show_text("Ready!")
MainReady ==
    /\ variant = "anti3" /\ mpc = "ready"
    /\ Write("main", <<"Ready!">>)
    /\ mpc' = "loop"
    /\ UNCHANGED <<variant, request, pc, apc>> /\ UNCHANGED othersOfMain

\* ----------------------------------------------------- anti3: the hardware
\* A button goes down or up.  With the lines requested (Edge.BOTH) the kernel
\* queues a FALLING (press) or RISING (release) edge event; `holder` notes
\* whose feature held the gate at that instant.
DetPcs == {"det_pause", "det_working", "det_detect", "det_show", "det_speak",
           "det_except", "det_finally", "k2_release"}
CapPcs == {"cap_pause", "cap_working", "cap_capture", "cap_show", "cap_except",
           "cap_finally", "k3_release"}
StartPcs == {"start_pause", "start_clear", "start_listening", "start_record",
             "start_except", "start_resume"}
StopPcs == {"stop_processing", "stop_stoprec", "stop_noaudio",
            "stop_noaudio_speak", "stop_transcribing", "stop_transcribe",
            "stop_empty", "stop_empty_speak", "stop_you", "stop_thinking",
            "stop_next", "stop_stream", "stop_speak", "stop_except",
            "stop_finally", "k1_release"}

\* the features in progress: detection and capture while their handler runs,
\* a voice-chat session from the accepted K1 press to the end of the handler
\* of its release
Detecting == pc \in DetPcs
Capturing == pc \in CapPcs
ChatSession == k1_pressed \/ pc \in StartPcs \cup StopPcs

Holder ==
    IF Detecting THEN K2
    ELSE IF Capturing THEN K3
    ELSE IF ChatSession THEN K1
    ELSE "none"

Toggle(b) ==
    /\ variant = "anti3"
    /\ level' = [level EXCEPT ![b] = ~level[b]]
    /\ IF request
         THEN /\ Len(edges) < MaxEdges
              /\ edges' = Append(edges,
                     [line |-> b,
                      type |-> IF level[b] THEN "RISING" ELSE "FALLING",
                      holder |-> Holder])
         ELSE UNCHANGED edges
    /\ UNCHANGED <<variant, mpc, request, oled>>
    /\ UNCHANGED gateVars /\ UNCHANGED pollVars /\ UNCHANGED animVars
    /\ UNCHANGED otherVariants

\* ------------------------------------------------- anti3: ButtonHandler gate
\* a faulty acquire that succeeds on a held lock too
AcquireOkAlways == TRUE

\* self._busy.acquire(blocking=False) succeeds iff the lock is free
AcquireOk == ~busy

\* self._busy.release(): frees a held lock; on a free lock raises RuntimeError
Release ==
    IF busy THEN busy' = FALSE /\ UNCHANGED releaseError
            ELSE releaseError' = TRUE /\ UNCHANGED busy

\* what every poll-thread step leaves alone unless it says otherwise
pollFrame ==
    UNCHANGED <<variant, mpc, request, level, alive, apc, ai>>
    /\ UNCHANGED otherVariants

\* _poll_events -> read_edge_events -> _handle_event: the oldest buffered event
\* is taken; the events of one read are handled one after the other
Take(b, t) ==
    /\ variant = "anti3" /\ pc = "poll"
    /\ edges /= <<>>
    /\ Head(edges).line = b /\ Head(edges).type = t
    /\ edges' = Tail(edges)
    /\ event' = Head(edges)

\* _handle_event: a K2 / K3 RISING edge matches no branch
IgnoredEdge ==
    /\ \E b \in {K2, K3} : Take(b, "RISING")
    /\ pc' = "poll"
    /\ UNCHANGED <<exc, loc, recording, running, oled>>
    /\ UNCHANGED gateVars /\ pollFrame

\* _on_k2_press lines 150-156
OnK2Press ==
    /\ Take(K2, "FALLING")
    /\ IF AcquireOk
         THEN busy' = TRUE /\ pc' = "det_pause"
         ELSE busy' = busy /\ pc' = "poll"
    /\ UNCHANGED <<k1_pressed, releaseError, exc, loc, recording,
                   running, oled>>
    /\ pollFrame

\* _on_k3_press lines 164-170
OnK3Press ==
    /\ Take(K3, "FALLING")
    /\ IF AcquireOk
         THEN busy' = TRUE /\ pc' = "cap_pause"
         ELSE busy' = busy /\ pc' = "poll"
    /\ UNCHANGED <<k1_pressed, releaseError, exc, loc, recording,
                   running, oled>>
    /\ pollFrame

\* _on_k1_press lines 178-184
OnK1Press ==
    /\ Take(K1, "FALLING")
    /\ IF AcquireOk
         THEN /\ busy' = TRUE /\ k1_pressed' = TRUE
              /\ pc' = "start_pause"
         ELSE /\ busy' = busy /\ k1_pressed' = k1_pressed
              /\ pc' = "poll"
    /\ UNCHANGED <<releaseError, exc, loc, recording, running, oled>>
    /\ pollFrame

\* a faulty _on_k1_release that frees the gate before the chat-stop callback
OnK1ReleaseFreesFirst ==
    /\ Take(K1, "RISING")
    /\ IF k1_pressed
         THEN k1_pressed' = FALSE /\ busy' = FALSE /\ pc' = "stop_processing"
         ELSE k1_pressed' = k1_pressed /\ busy' = busy /\ pc' = "poll"
    /\ UNCHANGED <<releaseError, exc, loc, recording, running, oled>>
    /\ pollFrame

\* a faulty _on_k1_release without the test of _k1_pressed
OnK1ReleaseUnguarded ==
    /\ Take(K1, "RISING")
    /\ k1_pressed' = FALSE /\ pc' = "stop_processing"
    /\ UNCHANGED <<busy, releaseError, exc, loc, recording, running,
                   oled>>
    /\ pollFrame

\* _on_k1_release lines 191-196
OnK1Release ==
    /\ Take(K1, "RISING")
    /\ IF k1_pressed
         THEN k1_pressed' = FALSE /\ pc' = "stop_processing"
         ELSE k1_pressed' = k1_pressed /\ pc' = "poll"
    /\ UNCHANGED <<busy, releaseError, exc, loc, recording, running,
                   oled>>
    /\ pollFrame

\* a handler step of the poll thread: at p, leaving the hardware and the gate
At(p) == variant = "anti3" /\ pc = p

\* a call on a collaborator that writes the panel: it returns, or raises to
\* the enclosing except clause
Show(text, next, onRaise) ==
    \/ Write("feature", text) /\ pc' = next
    \/ UNCHANGED oled /\ pc' = onRaise

\* a faulty pause that leaves the event as it is
PauseSkipped == running' = running

\* EyeAnimation.pause(): self._running.clear()
Pause == running' = FALSE

\* a faulty resume that leaves the event as it is
ResumeSkipped == running' = running

\* EyeAnimation.resume(): self._running.set()
Resume == running' = TRUE

\* a Controller step: the hardware, the gate and the event stay as they are
ctlFrame ==
    /\ event' = IF pc' = "poll" THEN NoEvent ELSE event
    /\ UNCHANGED edges /\ UNCHANGED gateVars /\ pollFrame

\* ---------------------------- anti3: Controller.handle_object_detection
\* controller.py:44
DetPause ==
    /\ At("det_pause") /\ Pause /\ pc' = "det_working"
    /\ UNCHANGED <<exc, loc, recording, oled>> /\ ctlFrame

\* controller.py:45
DetWorking ==
    /\ At("det_working") /\ Show(<<"Detecting...">>, "det_detect", "det_except")
    /\ UNCHANGED <<exc, loc, recording, running>> /\ ctlFrame

\* controller.py:48  labels = self._vision.detect().  The vision object is
\* the ObjectDetector that main() constructs (main.py:50-51, 78-81); the
\* class (ai/vision.py:32-120) defines detect_first_object and
\* capture_and_save_image and no detect: the attribute lookup raises
\* AttributeError, whatever is in front of the camera.  loc.labels notes it.
DetDetect ==
    /\ At("det_detect")
    /\ loc' = [loc EXCEPT !.labels = "AttributeError"]
    /\ pc' = "det_except"
    /\ UNCHANGED <<exc, recording, running, oled>> /\ ctlFrame

\* controller.py:50-53, 58-59 (no step of DetDetect leads here)
DetShow ==
    /\ At("det_show")
    /\ IF loc.labels = "none"
         THEN Show(<<"No object detected">>, "det_speak", "det_except")
         ELSE Show(<<"Detected: cup">>, "det_speak", "det_except")
    /\ UNCHANGED <<exc, loc, recording, running>> /\ ctlFrame

\* controller.py:57, 61  self._tts.speak(...) (not reached either)
DetSpeak ==
    /\ At("det_speak")
    /\ pc' \in {"det_finally", "det_except"}
    /\ UNCHANGED <<exc, loc, recording, running, oled>> /\ ctlFrame

\* controller.py:63-65  the except clause; its own show_text may raise, and
\* then the exception leaves the handler after the finally clause
DetExcept ==
    /\ At("det_except")
    /\ \/ Write("feature", <<"Error!">>) /\ exc' = FALSE
       \/ UNCHANGED oled /\ exc' = TRUE
    /\ pc' = "det_finally"
    /\ UNCHANGED <<loc, recording, running>> /\ ctlFrame

\* controller.py:67-72  finally: sleep, resume
DetFinally ==
    /\ At("det_finally") /\ Resume /\ pc' = "k2_release"
    /\ loc' = NoLocals
    /\ UNCHANGED <<exc, recording, oled>> /\ ctlFrame

\* a faulty _on_k2_press whose release sits in the try block, not in finally
K2ReleaseInTry ==
    /\ At("k2_release") /\ exc' = FALSE /\ pc' = "poll"
    /\ IF exc THEN UNCHANGED <<busy, releaseError>> ELSE Release
    /\ event' = NoEvent
    /\ UNCHANGED <<k1_pressed, edges, loc, recording, running, oled>>
    /\ pollFrame

\* a faulty _on_k2_press without the except clause, under a dispatch loop
\* that catches nothing: the exception ends the poll thread
K2ReleaseUncaught ==
    /\ At("k2_release") /\ Release
    /\ exc' = exc /\ pc' = IF exc THEN "terminated" ELSE "poll"
    /\ event' = NoEvent
    /\ UNCHANGED <<k1_pressed, edges, loc, recording, running, oled>>
    /\ pollFrame

\* _on_k2_press lines 159-162: the except clause logs, finally releases
K2Release ==
    /\ At("k2_release") /\ Release /\ exc' = FALSE /\ pc' = "poll"
    /\ event' = NoEvent
    /\ UNCHANGED <<k1_pressed, edges, loc, recording, running, oled>>
    /\ pollFrame

\* -------------------------------- anti3: Controller.handle_image_capture
\* controller.py:84
CapPause ==
    /\ At("cap_pause") /\ Pause /\ pc' = "cap_working"
    /\ UNCHANGED <<exc, loc, recording, oled>> /\ ctlFrame

\* controller.py:85
CapWorking ==
    /\ At("cap_working") /\ Show(<<"Capturing...">>, "cap_capture", "cap_except")
    /\ UNCHANGED <<exc, loc, recording, running>> /\ ctlFrame

\* controller.py:93  success = self._vision.capture_image_to_file(filepath):
\* ObjectDetector has no capture_image_to_file either: AttributeError
CapCapture ==
    /\ At("cap_capture")
    /\ loc' = [loc EXCEPT !.labels = "AttributeError"]
    /\ pc' = "cap_except"
    /\ UNCHANGED <<exc, recording, running, oled>> /\ ctlFrame

\* controller.py:95-100 (no step of CapCapture leads here)
CapShow ==
    /\ At("cap_show")
    /\ IF loc.labels = "saved"
         THEN Show(<<"Image Saved">>, "cap_finally", "cap_except")
         ELSE Show(<<"Capture Failed">>, "cap_finally", "cap_except")
    /\ UNCHANGED <<exc, loc, recording, running>> /\ ctlFrame

\* controller.py:102-104
CapExcept ==
    /\ At("cap_except")
    /\ \/ Write("feature", <<"Error!">>) /\ exc' = FALSE
       \/ UNCHANGED oled /\ exc' = TRUE
    /\ pc' = "cap_finally"
    /\ UNCHANGED <<loc, recording, running>> /\ ctlFrame

\* controller.py:106-111
CapFinally ==
    /\ At("cap_finally") /\ Resume /\ pc' = "k3_release"
    /\ loc' = NoLocals
    /\ UNCHANGED <<exc, recording, oled>> /\ ctlFrame

\* _on_k3_press lines 173-176
K3Release ==
    /\ At("k3_release") /\ Release /\ exc' = FALSE /\ pc' = "poll"
    /\ event' = NoEvent
    /\ UNCHANGED <<k1_pressed, edges, loc, recording, running, oled>>
    /\ pollFrame

\* ------------------------------------ anti3: Controller.handle_chat_start
\* controller.py:123
StartPause ==
    /\ At("start_pause") /\ Pause /\ pc' = "start_clear"
    /\ UNCHANGED <<exc, loc, recording, oled>> /\ ctlFrame

\* controller.py:126  self._oled.clear()
StartClear ==
    /\ At("start_clear") /\ Show(<<>>, "start_listening", "start_except")
    /\ UNCHANGED <<exc, loc, recording, running>> /\ ctlFrame

\* controller.py:127
StartListening ==
    /\ At("start_listening")
    /\ Show(<<"Listening...">>, "start_record", "start_except")
    /\ UNCHANGED <<exc, loc, recording, running>> /\ ctlFrame

\* controller.py:130  self._recorder.start_recording(); the handler returns to
\* _on_k1_press, which returns to the poll loop with the gate still held
StartRecord ==
    /\ At("start_record")
    /\ \/ recording' = TRUE /\ pc' = "poll"
       \/ recording' = recording /\ pc' = "start_except"
    /\ UNCHANGED <<exc, loc, running, oled>> /\ ctlFrame

\* controller.py:132-134; a raise of show_text skips line 135 and is caught
\* and logged by _on_k1_press lines 188-189
StartExcept ==
    /\ At("start_except")
    /\ Show(<<"Error!">>, "start_resume", "poll")
    /\ UNCHANGED <<exc, loc, recording, running>> /\ ctlFrame

\* controller.py:135  self._animation.resume()
StartResume ==
    /\ At("start_resume") /\ Resume /\ pc' = "poll"
    /\ UNCHANGED <<exc, loc, recording, oled>> /\ ctlFrame

\* ------------------------------------- anti3: Controller.handle_chat_stop
\* controller.py:141
StopProcessing ==
    /\ At("stop_processing")
    /\ Show(<<"Processing...">>, "stop_stoprec", "stop_except")
    /\ UNCHANGED <<exc, loc, recording, running>> /\ ctlFrame

\* controller.py:144-146  audio_path = self._recorder.stop_recording()
StopRecording ==
    /\ At("stop_stoprec")
    /\ \/ /\ recording' = FALSE
          /\ \E a \in {"none", "wav"} :
                /\ loc' = [loc EXCEPT !.audio_path = a]
                /\ pc' = IF a = "none" THEN "stop_noaudio" ELSE "stop_transcribing"
       \/ UNCHANGED <<recording, loc>> /\ pc' = "stop_except"
    /\ UNCHANGED <<exc, running, oled>> /\ ctlFrame

\* controller.py:147
StopNoAudio ==
    /\ At("stop_noaudio")
    /\ Show(<<"No audio captured">>, "stop_noaudio_speak", "stop_except")
    /\ UNCHANGED <<exc, loc, recording, running>> /\ ctlFrame

\* controller.py:148-149  speak, then return (through the finally clause)
StopNoAudioSpeak ==
    /\ At("stop_noaudio_speak")
    /\ pc' \in {"stop_finally", "stop_except"}
    /\ UNCHANGED <<exc, loc, recording, running, oled>> /\ ctlFrame

\* controller.py:152
StopTranscribing ==
    /\ At("stop_transcribing")
    /\ Show(<<"Transcribing...">>, "stop_transcribe", "stop_except")
    /\ UNCHANGED <<exc, loc, recording, running>> /\ ctlFrame

\* controller.py:153-155  text = self._stt.transcribe(audio_path)
StopTranscribe ==
    /\ At("stop_transcribe")
    /\ \/ \E t \in {"", "hi"} :
             /\ loc' = [loc EXCEPT !.text = t]
             /\ pc' = IF t = "" THEN "stop_empty" ELSE "stop_you"
       \/ loc' = loc /\ pc' = "stop_except"
    /\ UNCHANGED <<exc, recording, running, oled>> /\ ctlFrame

\* controller.py:156
StopEmpty ==
    /\ At("stop_empty")
    /\ Show(<<"Could not understand">>, "stop_empty_speak", "stop_except")
    /\ UNCHANGED <<exc, loc, recording, running>> /\ ctlFrame

\* a faulty empty-transcript branch that returns past the finally clause
StopEmptySpeakReturns ==
    /\ At("stop_empty_speak")
    /\ pc' \in {"k1_release", "stop_except"}
    /\ UNCHANGED <<exc, loc, recording, running, oled>> /\ ctlFrame

\* controller.py:157-158
StopEmptySpeak ==
    /\ At("stop_empty_speak")
    /\ pc' \in {"stop_finally", "stop_except"}
    /\ UNCHANGED <<exc, loc, recording, running, oled>> /\ ctlFrame

\* controller.py:161-163
StopYou ==
    /\ At("stop_you")
    /\ Show(<<"You: hi">>, "stop_thinking", "stop_except")
    /\ UNCHANGED <<exc, loc, recording, running>> /\ ctlFrame

\* controller.py:166-167
StopThinking ==
    /\ At("stop_thinking")
    /\ Show(<<"Thinking...">>, "stop_next", "stop_except")
    /\ UNCHANGED <<exc, loc, recording, running>> /\ ctlFrame

\* a faulty loop step that keeps only the last token
StopNextReplaces ==
    /\ At("stop_next")
    /\ \/ /\ Len(loc.tokens) < MaxFrags
          /\ \E f \in Frags :
                loc' = [loc EXCEPT !.full_response = f,
                                   !.tokens = Append(@, f)]
          /\ pc' = "stop_stream"
       \/ loc' = [loc EXCEPT !.stream = "done"] /\ pc' = "stop_speak"
       \/ loc' = [loc EXCEPT !.stream = "raised"] /\ pc' = "stop_except"
    /\ UNCHANGED <<exc, recording, running, oled>> /\ ctlFrame

\* controller.py:169-170  the for statement asks the generator for a token:
\* it yields a fragment, full_response += token, or it is exhausted, or it
\* raises
StopNext ==
    /\ At("stop_next")
    /\ \/ /\ Len(loc.tokens) < MaxFrags
          /\ \E f \in Frags :
                loc' = [loc EXCEPT !.full_response = @ \o f,
                                   !.tokens = Append(@, f)]
          /\ pc' = "stop_stream"
       \/ loc' = [loc EXCEPT !.stream = "done"] /\ pc' = "stop_speak"
       \/ loc' = [loc EXCEPT !.stream = "raised"] /\ pc' = "stop_except"
    /\ UNCHANGED <<exc, recording, running, oled>> /\ ctlFrame

\* controller.py:171  self._oled.show_text_streaming(full_response)
StopStream ==
    /\ At("stop_stream")
    /\ Show(loc.full_response, "stop_next", "stop_except")
    /\ loc' = IF pc' = "stop_next"
               THEN [loc EXCEPT !.updates = Append(@, loc.full_response)]
               ELSE loc
    /\ UNCHANGED <<exc, recording, running>> /\ ctlFrame

\* str.strip(): the text without its leading and trailing white space
White == {" ", "\n", "\t"}

RECURSIVE LStrip(_)
LStrip(s) ==
    IF s /= <<>> /\ Head(s) \in White THEN LStrip(Tail(s)) ELSE s

RECURSIVE RStrip(_)
RStrip(s) ==
    IF s /= <<>> /\ s[Len(s)] \in White
      THEN RStrip(SubSeq(s, 1, Len(s) - 1)) ELSE s

Strip(s) == RStrip(LStrip(s))

\* controller.py:176-177
\* if full_response.strip(): self._tts.speak(full_response.strip())
StopSpeak ==
    /\ At("stop_speak")
    /\ IF Strip(loc.full_response) /= <<>>
         THEN /\ loc' = [loc EXCEPT
                           !.spoken = Append(@, Strip(loc.full_response))]
              /\ pc' \in {"stop_finally", "stop_except"}
         ELSE loc' = loc /\ pc' = "stop_finally"
    /\ UNCHANGED <<exc, recording, running, oled>> /\ ctlFrame

\* controller.py:179-181
StopExcept ==
    /\ At("stop_except")
    /\ \/ Write("feature", <<"Error!">>) /\ exc' = FALSE
       \/ UNCHANGED oled /\ exc' = TRUE
    /\ pc' = "stop_finally"
    /\ UNCHANGED <<loc, recording, running>> /\ ctlFrame

\* controller.py:183-188
StopFinally ==
    /\ At("stop_finally") /\ Resume /\ pc' = "k1_release"
    /\ loc' = NoLocals
    /\ UNCHANGED <<exc, recording, oled>> /\ ctlFrame

\* a faulty _on_k1_release whose finally releases without a try: the
\* RuntimeError of a free gate leaves the handler
K1ReleaseUncaught ==
    /\ At("k1_release") /\ Release /\ exc' = FALSE
    /\ pc' = IF busy THEN "poll" ELSE "terminated"
    /\ event' = NoEvent
    /\ UNCHANGED <<k1_pressed, edges, loc, recording, running, oled>>
    /\ pollFrame

\* _on_k1_release lines 200-206: the except clause logs; finally releases and
\* passes over a RuntimeError of the release
K1Release ==
    /\ At("k1_release") /\ Release /\ exc' = FALSE /\ pc' = "poll"
    /\ event' = NoEvent
    /\ UNCHANGED <<k1_pressed, edges, loc, recording, running, oled>>
    /\ pollFrame

\* ------------------------------------------------ anti3: EyeAnimation._loop
animFrame ==
    UNCHANGED <<variant, mpc, request, level, edges, running, alive>>
    /\ UNCHANGED gateVars /\ UNCHANGED pollVars /\ UNCHANGED otherVariants

\* _draw_eyes(): one frame on the panel
DrawEyes == Write("anim", <<"eyes">>)

\* the test that opens each step of _look_left / _look_right / _blink
KeepsDrawing == alive /\ running

\* animation.py:71  the first _center_eyes() of the thread
AnimInit ==
    /\ variant = "anti3" /\ apc = "init"
    /\ DrawEyes /\ apc' = "top" /\ ai' = 0
    /\ animFrame

\* animation.py:72  while self._alive: the test that opens a cycle
AnimTop ==
    /\ variant = "anti3" /\ apc = "top"
    /\ apc' = IF alive THEN "wait" ELSE "exit"
    /\ ai' = 0
    /\ UNCHANGED oled /\ animFrame

\* a faulty wait: a paused loop ends instead of blocking
AnimWaitEnds ==
    /\ variant = "anti3" /\ apc = "wait"
    /\ apc' = IF running THEN "woken" ELSE "exit"
    /\ ai' = 0
    /\ UNCHANGED oled /\ animFrame

\* animation.py:74  self._running.wait() is called: with the event set it
\* returns at once, with the event clear the thread blocks
AnimWait ==
    /\ variant = "anti3" /\ apc = "wait"
    /\ apc' = IF running THEN "woken" ELSE "blocked"
    /\ ai' = 0
    /\ UNCHANGED oled /\ animFrame

\* the blocked wait returns: a set() has notified the thread ("notified"),
\* or the event is found set
AnimBlocked ==
    /\ variant = "anti3"
    /\ apc \in (IF running THEN {"blocked", "notified"} ELSE {"notified"})
    /\ apc' = "woken" /\ ai' = 0
    /\ UNCHANGED oled /\ animFrame

\* animation.py:75-76  if not self._alive: break
AnimWoken ==
    /\ variant = "anti3" /\ apc = "woken"
    /\ apc' = IF alive THEN "c1" ELSE "exit"
    /\ ai' = 0
    /\ UNCHANGED oled /\ animFrame

\* animation.py:80-81, 88-89, 96-97  _center_eyes() and the _sleep_check after it
AnimCenter(p, next) ==
    /\ variant = "anti3" /\ apc = p
    /\ DrawEyes /\ apc' = next /\ ai' = 0
    /\ animFrame

\* a step of _look_left / _look_right / _blink opens: the test of alive and
\* running; when it fails the function returns and the cycle goes on
AnimCheck(p, draw, after) ==
    /\ variant = "anti3" /\ apc = p
    /\ IF KeepsDrawing THEN apc' = draw /\ ai' = ai
                       ELSE apc' = after /\ ai' = 0
    /\ UNCHANGED oled /\ animFrame

\* the step draws its frame and sleeps; after the last step the function
\* returns (and the _sleep_check that follows it ends)
AnimStep(p, check, after, steps) ==
    /\ variant = "anti3" /\ apc = p
    /\ DrawEyes
    /\ IF ai + 1 < steps THEN apc' = check /\ ai' = ai + 1
                         ELSE apc' = after /\ ai' = 0
    /\ animFrame

AnimCenter1 == AnimCenter("c1", "left")
AnimLeftCheck == AnimCheck("left", "left_draw", "c3")
AnimLeftStep == AnimStep("left_draw", "left", "c3", LookSteps)
AnimCenter3 == AnimCenter("c3", "right")
AnimRightCheck == AnimCheck("right", "right_draw", "c5")
AnimRightStep == AnimStep("right_draw", "right", "c5", LookSteps)
AnimCenter5 == AnimCenter("c5", "blink")
AnimBlinkCheck == AnimCheck("blink", "blink_draw", "top")
AnimBlinkStep == AnimStep("blink_draw", "blink", "top", 2 * BlinkSteps)

\* ------------------------------------------------------------ anti3: Next
MainAnti3 == MainBoot \/ MainLoad \/ MainButtons \/ MainAnimStart \/ MainReady

ButtonsAnti3 ==
    \/ IgnoredEdge \/ OnK2Press \/ OnK3Press \/ OnK1Press \/ OnK1Release
    \/ K2Release \/ K3Release \/ K1Release

ControllerAnti3 ==
    \/ DetPause \/ DetWorking \/ DetDetect \/ DetExcept \/ DetFinally
    \/ CapPause \/ CapWorking \/ CapCapture \/ CapExcept \/ CapFinally
    \/ StartPause \/ StartClear \/ StartListening \/ StartRecord
    \/ StartExcept \/ StartResume
    \/ StopProcessing \/ StopRecording \/ StopNoAudio \/ StopNoAudioSpeak
    \/ StopTranscribing \/ StopTranscribe \/ StopEmpty \/ StopEmptySpeak
    \/ StopYou \/ StopThinking \/ StopNext \/ StopStream \/ StopSpeak
    \/ StopExcept \/ StopFinally

AnimationAnti3 ==
    \/ AnimInit \/ AnimTop \/ AnimWait \/ AnimBlocked \/ AnimWoken
    \/ AnimCenter1 \/ AnimLeftCheck \/ AnimLeftStep
    \/ AnimCenter3 \/ AnimRightCheck \/ AnimRightStep \/ AnimCenter5
    \/ AnimBlinkCheck \/ AnimBlinkStep

\* The main thread, the hardware and the poll thread with the handlers it
\* runs.  No step of these reads apc, ai or oled, and the animation thread
\* writes nothing else: what holds of the other variables here holds of them
\* with the animation thread running too.
NextDispatch ==
    \/ MainAnti3
    \/ \E b \in Buttons : Toggle(b)
    \/ ButtonsAnti3
    \/ ControllerAnti3

NextAnti3 == NextDispatch \/ AnimationAnti3

\* _on_k1_release on either value of _k1_pressed: with the flag set and the
\* gate free (no press was accepted) its finally releases a free gate
InitGate ==
    /\ variant = "anti3" /\ line = NoBounce
    /\ \E pressed \in BOOLEAN : ConstructedWith("read", pressed)

SpecGate == InitGate /\ [][NextDispatch]_vars

SpecAnti3 == InitAnti3 /\ [][NextAnti3]_vars

\* --------------------------------- anti3: EyeAnimation driven directly
\* a faulty stop() that leaves the event as it is
StopKeepsPaused == alive' = FALSE /\ running' = running

\* EyeAnimation.stop() lines 62-63: self._alive = False; self._running.set()
Stop == alive' = FALSE /\ running' = TRUE

\* pause(), resume() or stop() is called, by any thread at any time
\* (animation.py 50-66); a set() that changes the event wakes the thread
\* blocked in wait(), whatever becomes of the event afterwards.  last_call
\* notes the call and what the _loop thread was doing; stop() is called once
\* and goes on to its join
CallAnimation(op) ==
    /\ variant = "anti3"
    /\ CASE op = "pause" -> Pause /\ alive' = alive
         [] op = "resume" -> Resume /\ alive' = alive
         [] op = "stop" -> last_call.join = "none" /\ Stop
    /\ apc' = IF apc = "blocked" /\ running' THEN "notified" ELSE apc
    /\ last_call' = [op |-> op, at |-> apc, paused |-> ~running,
                     join |-> IF op = "stop" THEN "waiting"
                              ELSE last_call.join]
    /\ UNCHANGED <<variant, mpc, request, level, edges, ai, oled>>
    /\ UNCHANGED gateVars /\ UNCHANGED pollVars
    /\ UNCHANGED <<cpc, pause_event, lpc, lst, put, press, line, m69, r5, bus>>

NextAnimator ==
    \/ MainAnti3
    \/ \E op \in {"pause", "resume"} : CallAnimation(op)
    \/ AnimationAnti3

\* main() and the daemon thread of _loop go on while they have a step to
\* take; nothing is assumed of the callers of pause() and resume()
SpecAnimator ==
    /\ InitAnti3 /\ [][NextAnimator]_vars
    /\ WF_vars(MainAnti3) /\ WF_vars(AnimationAnti3)

\* animation.py:64-66  if self._thread: self._thread.join(timeout=3): the
\* join is skipped without a thread and returns when the thread has ended
\* or when the 3 s are over
JoinReturns ==
    /\ variant = "anti3" /\ last_call.join = "waiting"
    /\ \/ apc \in {"unstarted", "exit"}
       \/ apc \notin {"unstarted", "exit"}
    /\ last_call' = [last_call EXCEPT !.join = "returned"]
    /\ UNCHANGED <<variant, mpc, request, level, edges, oled>>
    /\ UNCHANGED gateVars /\ UNCHANGED pollVars /\ UNCHANGED animVars
    /\ UNCHANGED <<cpc, pause_event, lpc, lst, put, press, line, m69, r5, bus>>

NextStopper ==
    \/ MainAnti3
    \/ \E op \in {"pause", "resume", "stop"} : CallAnimation(op)
    \/ JoinReturns
    \/ AnimationAnti3

\* as SpecAnimator, with stop(); the thread that called stop() goes on too
SpecStopper ==
    /\ InitAnti3 /\ [][NextStopper]_vars
    /\ WF_vars(MainAnti3) /\ WF_vars(AnimationAnti3) /\ WF_vars(JoinReturns)

\* ------------------------------------------- assistant: Controller.handle_event
anti3Vars == <<mpc, request, level, edges, pc, event, busy, k1_pressed,
               releaseError, exc, recording, running, alive, apc, ai>>

\* what a Controller step of this variant leaves alone
asstFrame ==
    UNCHANGED variant /\ UNCHANGED anti3Vars
    /\ UNCHANGED <<lpc, lst, put, press, line, m69, r5, bus, last_call>>

AtA(p) == variant = "assistant" /\ cpc = p

\* self.oled.show_text([...]): returns, or raises to the handler's except
\* clause, which logs; the finally clause then calls _return_to_idle
ShowA(text, next) ==
    \/ Write("feature", text) /\ cpc' = next
    \/ UNCHANGED oled /\ cpc' = "idle_clear"

\* controller.py:47-59  the chain of comparisons: K2_OBJECT_DETECT and
\* K3_SHORT_CAPTURE enter their handlers; for a K1 event the third comparison
\* evaluates ButtonEventType.K3_LONG_CHAT_START, which the enum does not
\* define: AttributeError, caught at line 57, then _return_to_idle
HandleEvent(t) ==
    /\ AtA("idle")
    /\ cpc' = CASE t = "K2_OBJECT_DETECT" -> "obj_pause"
                [] t = "K3_SHORT_CAPTURE" -> "img_pause"
                [] OTHER -> "idle_clear"
    /\ UNCHANGED <<pause_event, loc, oled>> /\ asstFrame

\* controller.py:67  self.animation.pause(): _pause_event.set()
ObjPause ==
    /\ AtA("obj_pause") /\ pause_event' = TRUE /\ cpc' = "obj_working"
    /\ UNCHANGED <<loc, oled>> /\ asstFrame

\* controller.py:68
ObjWorking ==
    /\ AtA("obj_working") /\ ShowA(<<"Object detect...">>, "obj_detect")
    /\ UNCHANGED <<pause_event, loc>> /\ asstFrame

\* controller.py:70  image, label = self.vision.detect_first_object()
ObjDetect ==
    /\ AtA("obj_detect")
    /\ \/ \E l \in {"cup", "none"} :
             loc' = [loc EXCEPT !.labels = l] /\ cpc' = "obj_show"
       \/ loc' = loc /\ cpc' = "idle_clear"
    /\ UNCHANGED <<pause_event, oled>> /\ asstFrame

\* controller.py:72-74, 79-80
ObjShow ==
    /\ AtA("obj_show")
    /\ IF loc.labels = "none"
         THEN ShowA(<<"No object">>, "obj_speak")
         ELSE ShowA(<<"Object: cup">>, "obj_speak")
    /\ UNCHANGED <<pause_event, loc>> /\ asstFrame

\* controller.py:75-78, 81-86  tts.speak in its own try (a raise is logged),
\* the sleep, then the finally clause
ObjSpeak ==
    /\ AtA("obj_speak") /\ cpc' = "idle_clear"
    /\ UNCHANGED <<pause_event, loc, oled>> /\ asstFrame

\* controller.py:98
ImgPause ==
    /\ AtA("img_pause") /\ pause_event' = TRUE /\ cpc' = "img_working"
    /\ UNCHANGED <<loc, oled>> /\ asstFrame

\* controller.py:99
ImgWorking ==
    /\ AtA("img_working") /\ ShowA(<<"Capturing image...">>, "img_capture")
    /\ UNCHANGED <<pause_event, loc>> /\ asstFrame

\* controller.py:101  saved_path = self.vision.capture_and_save_image()
ImgCapture ==
    /\ AtA("img_capture")
    /\ \/ \E r \in {"saved", "failed"} :
             loc' = [loc EXCEPT !.labels = r] /\ cpc' = "img_show"
       \/ loc' = loc /\ cpc' = "idle_clear"
    /\ UNCHANGED <<pause_event, oled>> /\ asstFrame

\* controller.py:102-107
ImgShow ==
    /\ AtA("img_show")
    /\ IF loc.labels = "saved"
         THEN ShowA(<<"Image Saved">>, "idle_clear")
         ELSE ShowA(<<"Save failed">>, "idle_clear")
    /\ UNCHANGED <<pause_event, loc>> /\ asstFrame

\* controller.py:193-196  _return_to_idle: oled.clear() in its own try
ReturnToIdleClear ==
    /\ AtA("idle_clear")
    /\ \/ Write("feature", <<>>)
       \/ UNCHANGED oled
    /\ cpc' = "idle_resume"
    /\ UNCHANGED <<pause_event, loc>> /\ asstFrame

\* controller.py:197-200  animation.resume(): _pause_event.clear(); the
\* handler and handle_event return
ReturnToIdleResume ==
    /\ AtA("idle_resume") /\ pause_event' = FALSE /\ cpc' = "idle"
    /\ loc' = NoLocals
    /\ UNCHANGED oled /\ asstFrame

NextAssistant ==
    \/ \E t \in EventTypes : HandleEvent(t)
    \/ ObjPause \/ ObjWorking \/ ObjDetect \/ ObjShow \/ ObjSpeak
    \/ ImgPause \/ ImgWorking \/ ImgCapture \/ ImgShow
    \/ ReturnToIdleClear \/ ReturnToIdleResume

\* the dispatching side of either variant
Spec == (InitAnti3 \/ InitAssistant) /\ [][NextDispatch \/ NextAssistant]_vars

\* The same with the scheduling of the threads: the poll thread of anti3
\* (daemon thread of _poll_events, with the handlers it calls) and the
\* thread that runs a src/assistant handler go on while they have a step to
\* take.  Nothing is assumed of the buttons.
SpecFair ==
    /\ Spec
    /\ WF_vars(ButtonsAnti3 \/ ControllerAnti3)
    /\ WF_vars(ObjPause \/ ObjWorking \/ ObjDetect \/ ObjShow \/ ObjSpeak
                 \/ ImgPause \/ ImgWorking \/ ImgCapture \/ ImgShow
                 \/ ReturnToIdleClear \/ ReturnToIdleResume)

\* ------------------------------------------------ listener: ButtonListener
\* Time is counted in ticks of one poll period (the 0.01 s of run's sleep).
\* It passes only while the thread sleeps; the reads and tests of a poll take
\* none.  now - _k1_press_time is kept as the age of the press, which stops
\* counting at the threshold (only age >= threshold is ever tested).
PollTicks == 1       \* time.sleep(0.01) of run
DebounceTicks == 3   \* time.sleep(0.03) of _poll_k2
WaitTicks == 2       \* time.sleep(0.02) of _poll_k2's wait for the release
HoldTicks == 5       \* the 1.0 s threshold, in ticks scaled down for the model
Slack == 2           \* ticks by which a sampled duration may differ
PutCap == 2          \* put counts stop here: 2 reads "two or more"

Min(a, b) == IF a < b THEN a ELSE b
Inc(n) == Min(n + 1, PutCap)

lstRest == <<mpc, request, edges, pc, event, busy, k1_pressed, releaseError,
             exc, recording, running, alive, apc, ai, loc, oled, cpc,
             pause_event, m69, r5, bus, last_call>>

\* what a step of the listener thread leaves alone (level is named by the
\* step itself)
lstFrame == UNCHANGED variant /\ UNCHANGED lstRest /\ UNCHANGED line

\* the events the listener puts on the queue for a button
EventsOf(b) ==
    CASE b = K1 -> {"K1_LONG_CHAT_START", "K1_LONG_CHAT_END"}
      [] b = K2 -> {"K2_OBJECT_DETECT"}
      [] b = K3 -> {"K3_SHORT_CAPTURE"}

\* a button goes down or up.  A press of K1 / K3 opens a new record of the
\* physical press (when the listener has not yet seen the end of the last
\* one the two overlap, and the record says so); the counts of the events of
\* that button start again
ListenerToggle(b) ==
    /\ variant = "listener" /\ line.button = "none"
    /\ level' = [level EXCEPT ![b] = ~level[b]]
    /\ IF level[b]
         THEN /\ put' = put
              /\ press' = IF b /= K2 /\ press[b].phase = "down"
                            THEN [press EXCEPT ![b].phase = "up"]
                            ELSE press
         ELSE /\ put' = [t \in EventTypes |->
                            IF t \in EventsOf(b) THEN 0 ELSE put[t]]
              /\ press' = IF b = K2 THEN press
                          ELSE [press EXCEPT ![b] =
                                  [phase |-> IF press[b].phase
                                                  \in {"none", "settled"}
                                               THEN "down" ELSE "overlap",
                                   held |-> 0]]
    /\ UNCHANGED <<variant, mpc, request, edges, oled, lpc, lst>>
    /\ UNCHANGED gateVars /\ UNCHANGED pollVars /\ UNCHANGED animVars
    /\ UNCHANGED <<cpc, pause_event, line, m69, r5, bus, last_call>>

\* The contact of line.button bounces for less than BounceTicks after it
\* moved: until then a read may find either level, from then on the level it
\* settled in.
BounceTicks == DebounceTicks

\* a tick passes for the contact
LineTick ==
    IF line.button = "none" \/ line.since = BounceTicks
      THEN UNCHANGED <<line, level>>
      ELSE /\ line' = [line EXCEPT !.since = @ + 1]
           /\ level' = IF line.since + 1 = BounceTicks
                          THEN [level EXCEPT ![line.button] = line.down]
                          ELSE level

\* one tick of a time.sleep of the listener thread (buttons.py:91, 135, 140)
Tick ==
    /\ variant = "listener" /\ lst.sleep > 0
    /\ lst' = [lst EXCEPT
                 !.sleep = @ - 1,
                 !.k1_age = IF lst.k1_pressed THEN Min(@ + 1, HoldTicks) ELSE @,
                 !.k3_age = IF lst.k3_pressed THEN Min(@ + 1, HoldTicks) ELSE @]
    /\ press' = [b \in {K1, K3} |->
                    IF press[b].phase = "down"
                      THEN [press[b] EXCEPT
                              !.held = Min(@ + 1, HoldTicks + Slack)]
                      ELSE press[b]]
    /\ LineTick
    /\ UNCHANGED <<lpc, put>> /\ UNCHANGED variant /\ UNCHANGED lstRest

\* buttons.py:72-82  _read_pin: True if the button is pressed; False also
\* without GPIO or _gpio_ok ("absent") and when GPIO.input raises ("faulting")
ReadPin(b) == line.reads = "ok" /\ level[b]

\* the listener has polled b and found it up: the press it followed is over
Seen(b) ==
    [press EXCEPT ![b].phase =
        IF level[b] THEN @
        ELSE IF @ = "up" THEN "settled"
        ELSE IF @ = "overlap" THEN "none"
        ELSE @]

\* a faulty test that puts K1_LONG_CHAT_END at every release
PutsEndAtRelease(s, released) == released

\* buttons.py:110-113  the release of a press that lasted the threshold and
\* whose K1_LONG_CHAT_START was sent puts K1_LONG_CHAT_END
PutsEnd(s, released) ==
    released /\ s.k1_age >= HoldTicks /\ s.k1_long_sent

\* buttons.py:98-123  _poll_k1
PollK1 ==
    /\ variant = "listener" /\ lpc = "k1" /\ lst.sleep = 0
    /\ LET pressed == ReadPin(K1)
           \* lines 105-108
           s1 == IF pressed /\ ~lst.k1_pressed
                   THEN [lst EXCEPT !.k1_pressed = TRUE, !.k1_age = 0,
                                    !.k1_long_sent = FALSE]
                   ELSE lst
           \* lines 110-115
           released == s1.k1_pressed /\ ~pressed
           putEnd == PutsEnd(s1, released)
           s2 == IF released
                   THEN [s1 EXCEPT !.k1_pressed = FALSE, !.k1_age = 0,
                                   !.k1_long_sent = FALSE]
                   ELSE s1
           \* lines 117-121
           putStart == s2.k1_pressed /\ ~s2.k1_long_sent
                          /\ s2.k1_age >= HoldTicks
           s3 == IF putStart THEN [s2 EXCEPT !.k1_long_sent = TRUE] ELSE s2
       IN  /\ lst' = [s3 EXCEPT
                        !.k1_last = IF putEnd THEN "END"
                                    ELSE IF putStart THEN "START" ELSE @,
                        !.k1_alt = /\ @
                                   /\ putEnd => lst.k1_last = "START"
                                   /\ putStart => lst.k1_last /= "START"]
           /\ put' = [put EXCEPT
                        !["K1_LONG_CHAT_END"] = IF putEnd THEN Inc(@) ELSE @,
                        !["K1_LONG_CHAT_START"] =
                            IF putStart THEN Inc(@) ELSE @]
    /\ press' = Seen(K1)
    /\ lpc' = "k2"
    /\ UNCHANGED level /\ lstFrame

\* buttons.py:132-135  _poll_k2 reads the pin; pressed: the debounce sleep
PollK2 ==
    /\ variant = "listener" /\ lpc = "k2"
    /\ IF ReadPin(K2)
         THEN lpc' = "k2_debounce" /\ lst' = [lst EXCEPT !.sleep = DebounceTicks]
         ELSE lpc' = "k3" /\ lst' = lst
    /\ UNCHANGED <<level, put, press>> /\ lstFrame

\* buttons.py:136-137  still pressed after the sleep: the event is put
K2Debounced ==
    /\ variant = "listener" /\ lpc = "k2_debounce" /\ lst.sleep = 0
    /\ IF ReadPin(K2)
         THEN /\ put' = [put EXCEPT !["K2_OBJECT_DETECT"] = Inc(@)]
              /\ lpc' = "k2_wait"
         ELSE put' = put /\ lpc' = "k3"
    /\ UNCHANGED <<level, lst, press>> /\ lstFrame

\* buttons.py:139-140  while self._read_pin(K2): time.sleep(0.02)
K2Wait ==
    /\ variant = "listener" /\ lpc = "k2_wait" /\ lst.sleep = 0
    /\ IF ReadPin(K2)
         THEN lpc' = lpc /\ lst' = [lst EXCEPT !.sleep = WaitTicks]
         ELSE lpc' = "k3" /\ lst' = lst
    /\ UNCHANGED <<level, put, press>> /\ lstFrame

\* buttons.py:147-164  _poll_k3, then run's time.sleep(0.01) (line 91)
PollK3 ==
    /\ variant = "listener" /\ lpc = "k3"
    /\ LET pressed == ReadPin(K3)
           \* lines 154-156
           s1 == IF pressed /\ ~lst.k3_pressed
                   THEN [lst EXCEPT !.k3_pressed = TRUE, !.k3_age = 0]
                   ELSE lst
           \* lines 158-162
           released == s1.k3_pressed /\ ~pressed
           putShort == released /\ s1.k3_age < HoldTicks
           s2 == IF released
                   THEN [s1 EXCEPT !.k3_pressed = FALSE, !.k3_age = 0]
                   ELSE s1
       IN  /\ lst' = [s2 EXCEPT !.sleep = PollTicks]
           /\ put' = [put EXCEPT
                        !["K3_SHORT_CAPTURE"] = IF putShort THEN Inc(@) ELSE @]
    /\ press' = Seen(K3)
    /\ lpc' = "k1"
    /\ UNCHANGED level /\ lstFrame

NextListener ==
    \/ \E b \in Buttons : ListenerToggle(b)
    \/ Tick
    \/ PollK1 \/ PollK2 \/ K2Debounced \/ K2Wait \/ PollK3

SpecListener == InitListener /\ [][NextListener]_vars

\* ------------------------------------- listener: pins that cannot be read
\* GPIO is missing or its set-up failed in __init__ (buttons.py:54-70), or
\* the pins are read at first
InitDegraded ==
    /\ variant = "listener" /\ Constructed
    /\ \E r \in {"ok", "absent"} : line = [NoBounce EXCEPT !.reads = r]

\* from now on GPIO.input raises
ReadsFail ==
    /\ variant = "listener" /\ line.reads = "ok"
    /\ line' = [line EXCEPT !.reads = "faulting"]
    /\ UNCHANGED <<level, lpc, lst, put, press>>
    /\ UNCHANGED variant /\ UNCHANGED lstRest

NextDegraded == NextListener \/ ReadsFail

SpecDegraded == InitDegraded /\ [][NextDegraded]_vars

\* ------------------------------------- listener: one contact that bounces
\* One button is operated, with contact bounce; the other two stay up.
InitBounce ==
    /\ variant = "listener" /\ Constructed
    /\ \E b \in Buttons :
          line = [button |-> b, down |-> FALSE, since |-> BounceTicks,
                  reads |-> "ok"]

bounceFrame ==
    UNCHANGED variant /\ UNCHANGED lstRest /\ UNCHANGED <<lpc, lst, press>>

\* the button is pressed or released: the contact moves to its new position
\* (the last bounce is over); the counts of the button's events start again
\* with a press
Transition ==
    /\ variant = "listener" /\ line.button \in Buttons
    /\ line.since = BounceTicks
    /\ line' = [line EXCEPT !.down = ~@, !.since = 0]
    /\ level' = [level EXCEPT ![line.button] = ~line.down]
    /\ put' = IF line.down THEN put
               ELSE [t \in EventTypes |->
                       IF t \in EventsOf(line.button) THEN 0 ELSE put[t]]
    /\ bounceFrame

\* the contact bounces: the level flips while the contact has not settled
Bounce ==
    /\ variant = "listener" /\ line.button \in Buttons
    /\ line.since < BounceTicks
    /\ level' = [level EXCEPT ![line.button] = ~@]
    /\ UNCHANGED <<line, put>> /\ bounceFrame

NextBounce ==
    \/ Transition \/ Bounce \/ Tick
    \/ PollK1 \/ PollK2 \/ K2Debounced \/ K2Wait \/ PollK3

SpecBounce == InitBounce /\ [][NextBounce]_vars

\* ------------------------------------------------------- mark69: main()
\* src/mark69/assistant: main.py, buttons.py, state_manager.py, eyes.py.
\* The callbacks run in the poll thread of ButtonHandler and start one
\* daemon thread for each piece of work.
InitMark69 == variant = "mark69" /\ Constructed /\ line = NoBounce

frame69 ==
    UNCHANGED <<variant, mpc, request, edges, oled>>
    /\ UNCHANGED gateVars /\ UNCHANGED pollVars /\ UNCHANGED animVars
    /\ UNCHANGED <<cpc, pause_event, lpc, lst, put, press, line, last_call,
                   r5, bus>>

\* a button goes down or up
Press69(b) ==
    /\ variant = "mark69"
    /\ level' = [level EXCEPT ![b] = ~level[b]]
    /\ UNCHANGED m69 /\ frame69

\* threading.Thread(target=..., daemon=True).start(): a new thread at p
\* (the model has MaxWorkers of them: "overflow" marks one thread too many)
StartThread(m, p) ==
    LET free == {i \in 1..MaxWorkers : m.workers[i] = "free"} IN
    IF free = {} THEN [m EXCEPT !.workers = [i \in 1..MaxWorkers |-> "overflow"]]
    ELSE [m EXCEPT !.workers[CHOOSE i \in free : \A j \in free : i <= j] = p]

\* main.py:35-50  k1_press: refused unless the state is IDLE or LISTENING;
\* LISTENING, recorded_wav.clear(), the record worker starts
k1_press(m) ==
    IF m.state \notin {"idle", "listening"} THEN m
    ELSE [m EXCEPT !.state = "listening", !.wav = FALSE, !.rec = TRUE]

\* main.py:52-75  k1_release: stops the recording (got: it captured audio)
\* and takes what recorded_wav holds, also when the press had been refused;
\* with audio the process worker starts, without the state is set to IDLE
k1_release(m, got) ==
    LET wav == IF m.rec THEN got ELSE m.wav
        n == [m EXCEPT !.rec = FALSE, !.wav = wav]
    IN  IF wav THEN StartThread(n, "proc_set")
        ELSE [n EXCEPT !.state = "idle"]

\* main.py:77-101  k2_press: refused unless is_idle(); starts detect_worker
k2_press(m) ==
    IF m.state /= "idle" THEN m ELSE StartThread(m, "det_set")

\* main.py:103-112  k3_press: refused unless is_idle(); starts capture_worker
k3_press(m) ==
    IF m.state /= "idle" THEN m ELSE StartThread(m, "cap_vision")

\* buttons.py:64-95  one iteration of ButtonHandler._poll_loop: the three
\* pins are read, then K1's press or release, K2's and K3's rising edge call
\* their callbacks one after the other (the callbacks test the state and
\* start threads; no other thread's step is placed between them)
PollLoop69 ==
    /\ variant = "mark69"
    /\ \E got \in BOOLEAN :
         LET a == IF level[K1] /\ ~m69.was[K1] THEN k1_press(m69)
                  ELSE IF ~level[K1] /\ m69.was[K1] THEN k1_release(m69, got)
                  ELSE m69
             b == IF level[K2] /\ ~m69.was[K2] THEN k2_press(a) ELSE a
             c == IF level[K3] /\ ~m69.was[K3] THEN k3_press(b) ELSE b
         IN  /\ \A i \in 1..MaxWorkers : c.workers[i] /= "overflow"
             /\ m69' = [c EXCEPT !.was = level]
    /\ UNCHANGED level /\ frame69

\* worker thread i goes from one statement to the next, or ends ("free");
\* st is the argument of its state.set_state(), "same" without a call
Step69(i, from, to, st) ==
    /\ variant = "mark69" /\ m69.workers[i] = from
    /\ m69' = [m69 EXCEPT !.workers[i] = to,
                          !.state = IF st = "same" THEN @ ELSE st]
    /\ UNCHANGED level /\ frame69

\* main.py:81-99  detect_worker; nothing catches an exception of vision,
\* llm, tts or audio: it ends the thread where it is
DetectWorker(i) ==
    \/ Step69(i, "det_set", "det_vision", "detecting")
    \/ Step69(i, "det_vision", "det_none", "error")
    \/ Step69(i, "det_vision", "det_llm", "thinking")
    \/ Step69(i, "det_none", "free", "same")
    \/ Step69(i, "det_llm", "det_speak", "same")
    \/ Step69(i, "det_speak", "free", "success")
    \/ \E p \in {"det_vision", "det_llm", "det_speak"} :
          Step69(i, p, "free", "same")

\* main.py:107-110  capture_worker: it never sets the state
CaptureWorker(i) ==
    \/ Step69(i, "cap_vision", "cap_blink", "same")
    \/ Step69(i, "cap_blink", "free", "same")
    \/ Step69(i, "cap_vision", "free", "same")

\* main.py:57-70  process_worker
ProcessWorker(i) ==
    \/ Step69(i, "proc_set", "proc_stt", "thinking")
    \/ Step69(i, "proc_stt", "proc_llm", "same")
    \/ Step69(i, "proc_stt", "free", "error")
    \/ Step69(i, "proc_llm", "proc_speak", "same")
    \/ Step69(i, "proc_llm", "free", "error")
    \/ Step69(i, "proc_speak", "free", "idle")
    \/ \E p \in {"proc_stt", "proc_llm", "proc_speak"} :
          Step69(i, p, "free", "same")

\* eyes.py:266, 269  the animation of SUCCESS / ERROR is over:
\* self._state_manager.set_state(State.IDLE)
EyeReset ==
    /\ variant = "mark69" /\ m69.eye = "animate"
    /\ m69' = [m69 EXCEPT !.eye = "read", !.state = "idle"]
    /\ UNCHANGED level /\ frame69

\* eyes.py:255-272  _animation_loop reads the state; for SUCCESS and ERROR
\* it plays an animation and then sets the state to IDLE (an exception of
\* the animation is passed over, and the state is left)
EyeLoop ==
    \/ /\ variant = "mark69"
       /\ \/ /\ m69.eye = "read" /\ m69.state \in {"success", "error"}
             /\ m69' = [m69 EXCEPT !.eye = "animate"]
          \/ /\ m69.eye = "animate"
             /\ m69' = [m69 EXCEPT !.eye = "read"]
       /\ UNCHANGED level /\ frame69
    \/ EyeReset

\* eyes.py:249-252  _animation_loop, before its loop: _center_eyes() and
\* _draw_eyes() outside every try; a display write that raises
\* (eyes.py:109-110) ends the thread
EyeFirst ==
    /\ variant = "mark69" /\ m69.eye = "first"
    /\ \E drawn \in BOOLEAN :
          m69' = [m69 EXCEPT !.eye = IF drawn THEN "read" ELSE "dead"]
    /\ UNCHANGED level /\ frame69

Worker69(i) == DetectWorker(i) \/ CaptureWorker(i) \/ ProcessWorker(i)

NextMark69 ==
    \/ \E b \in Buttons : Press69(b)
    \/ PollLoop69
    \/ \E i \in 1..MaxWorkers : Worker69(i)
    \/ EyeLoop

\* the poll thread, every worker thread and the eye thread go on while they
\* have a step to take, and the eye animations do not fail every time;
\* nothing is assumed of the buttons
SpecMark69 ==
    /\ InitMark69 /\ [][NextMark69]_vars
    /\ WF_vars(PollLoop69) /\ WF_vars(EyeLoop) /\ SF_vars(EyeReset)
    /\ \A i \in 1..MaxWorkers : WF_vars(Worker69(i))

\* ============================================================== rpi5
\* src/rpi5-assistant: main.py, core/controller.py, hardware/buttons.py,
\* audio/recorder.py.  Every handler runs to its end on the thread that
\* called it; a handler is one step.
InitRpi5 == variant = "rpi5" /\ Constructed /\ line = NoBounce

frame5 ==
    UNCHANGED <<variant, mpc, request, edges, oled>>
    /\ UNCHANGED gateVars /\ UNCHANGED pollVars /\ UNCHANGED animVars
    /\ UNCHANGED <<cpc, pause_event, lpc, lst, put, press, line, m69,
                   bus, last_call>>

\* a button goes down or up
Press5(b) ==
    /\ variant = "rpi5"
    /\ level' = [level EXCEPT ![b] = ~level[b]]
    /\ UNCHANGED r5 /\ frame5

\* main.py:61-82 with controller.py:56-107  Controller().initialize(): the
\* subsystems are made (True) or one of them fails (False, sys.exit(1))
MainInitController ==
    /\ variant = "rpi5" /\ r5.main = "init"
    /\ \E ok \in BOOLEAN :
          r5' = IF ok THEN [r5 EXCEPT !.main = "init_animation",
                                      !.handles = "open"]
                      ELSE [r5 EXCEPT !.main = "failed"]
    /\ UNCHANGED level /\ frame5

\* main.py:79-87  AnimationEngine(...).start(); button_manager.start();
\* then run() enters its loop (94-120)
MainInitAnimation ==
    /\ variant = "rpi5" /\ r5.main = "init_animation"
    /\ r5' = [r5 EXCEPT !.main = "run", !.animation = "running",
                        !.polling = TRUE]
    /\ UNCHANGED level /\ frame5

\* main.py:146-149  SIGINT / SIGTERM: signal_handler raises SystemExit in the
\* main thread, wherever it is.  In initialize() nothing catches it (except
\* Exception, 89) and main() has not entered its try (171-173); in run() the
\* finally clause calls shutdown() (124-125); in that shutdown() it leaves
\* run() for the finally clause of main() (176-177); in the shutdown() called
\* there it leaves main()
Signal ==
    /\ variant = "rpi5" /\ r5.main \notin {"exit", "failed"}
    /\ r5' = CASE r5.main \in {"init", "init_animation"} ->
                    [r5 EXCEPT !.main = "exit"]
               [] r5.main = "run" ->
                    [r5 EXCEPT !.main = "run_stop_animation"]
               [] r5.main \in {"run_stop_animation", "run_controller"} ->
                    [r5 EXCEPT !.main = "main_stop_animation"]
               [] OTHER -> [r5 EXCEPT !.main = "exit"]
    /\ UNCHANGED level /\ frame5

\* main.py:127-134  shutdown(): self.animation.stop(); shutdowns counts the
\* times the sequence has run this first step
ShutdownAnimation ==
    /\ variant = "rpi5"
    /\ r5.main \in {"run_stop_animation", "main_stop_animation"}
    /\ r5' = [r5 EXCEPT !.animation = "stopped", !.shutdowns = @ + 1,
                        !.main = IF @ = "run_stop_animation"
                                   THEN "run_controller"
                                   ELSE "main_controller"]
    /\ UNCHANGED level /\ frame5

\* main.py:136-138 with controller.py:109-131  self.controller.shutdown():
\* the poll thread is stopped, GPIO and display are released, the recorder is
\* stopped.  When shutdown() was called by run(), the SystemExit goes on to
\* the finally clause of main() (176-177), which calls shutdown() again
ShutdownController ==
    /\ variant = "rpi5"
    /\ r5.main \in {"run_controller", "main_controller"}
    /\ r5' = IF r5.main = "run_controller"
               THEN [r5 EXCEPT !.handles = "released", !.polling = FALSE,
                               !.recording = FALSE,
                               !.main = "main_stop_animation"]
               ELSE [r5 EXCEPT !.handles = "released", !.polling = FALSE,
                               !.recording = FALSE, !.main = "exit"]
    /\ UNCHANGED level /\ frame5

\* controller.py:137-152  _on_button_event(button, pressed) with the handler
\* it calls, as the set of states [system_state, recording] it may end in
OnButtonEvent(button, pressed, st) ==
    CASE button = "K1" /\ pressed ->
           \* _start_push_to_talk (158-170)
           IF st.system_state = "listening" THEN {st}
           ELSE {[system_state |-> "listening", recording |-> TRUE]}
      [] button = "K1" /\ ~pressed ->
           \* _stop_push_to_talk (172-187): stop_recording(); no audio: IDLE;
           \* else _process_push_to_talk_async ends in IDLE or in ERROR
           IF st.system_state /= "listening" THEN {st}
           ELSE {[system_state |-> s, recording |-> FALSE] :
                    s \in {"idle", "error"}}
      [] button = "K2" /\ pressed ->
           \* _handle_object_detection (257-318)
           IF st.system_state \in {"listening", "processing", "responding"}
             THEN {st}
             ELSE {[st EXCEPT !.system_state = s] : s \in {"idle", "error"}}
      [] button = "K3" /\ pressed ->
           \* _handle_image_capture (325-354): no test of the state
           {[st EXCEPT !.system_state = s] : s \in {"idle", "error"}}
      [] OTHER -> {st}

NextButton(b) == IF b = "K1" THEN "K2" ELSE IF b = "K2" THEN "K3" ELSE "K1"

\* hardware/buttons.py:121-142  _poll_buttons, one button of its loop: a
\* level that differs from _button_states is taken when the debounce time
\* has passed since the last change, and the callback runs
PollButton ==
    /\ variant = "rpi5" /\ r5.polling
    /\ LET b == r5.at
           st == [system_state |-> r5.system_state,
                  recording |-> r5.recording]
       IN \E settled \in BOOLEAN :
            IF level[b] /= r5.button_states[b] /\ settled
              THEN \E after \in OnButtonEvent(b, level[b], st) :
                     r5' = [r5 EXCEPT !.button_states[b] = level[b],
                                      !.system_state = after.system_state,
                                      !.recording = after.recording,
                                      !.at = NextButton(b)]
              ELSE r5' = [r5 EXCEPT !.at = NextButton(b)]
    /\ UNCHANGED level /\ frame5

NextRpi5 ==
    \/ \E b \in Buttons : Press5(b)
    \/ MainInitController \/ MainInitAnimation
    \/ Signal \/ ShutdownAnimation \/ ShutdownController
    \/ PollButton

SpecRpi5 == InitRpi5 /\ [][NextRpi5]_vars

\* ------------------------------------------------ rpi5: AppState's queue
\* the stable sort of list.sort(key=lambda e: -e.priority), as an insertion
\* sort: e goes behind every event whose priority is not lower
InsertBeforeEquals(q, e) ==
    LET ahead == {i \in 1..Len(q) : q[i].priority > e.priority}
        k == Cardinality(ahead)
    IN SubSeq(q, 1, k) \o <<e>> \o SubSeq(q, k + 1, Len(q))

InsertStable(q, e) ==
    LET ahead == {i \in 1..Len(q) :
                    \A j \in 1..i : q[j].priority >= e.priority}
        k == Cardinality(ahead)
    IN SubSeq(q, 1, k) \o <<e>> \o SubSeq(q, k + 1, Len(q))

RECURSIVE SortByPriority(_)
SortByPriority(q) ==
    IF q = <<>> THEN <<>>
    ELSE InsertStable(SortByPriority(SubSeq(q, 1, Len(q) - 1)), q[Len(q)])

\* core/state.py:223-228  enqueue_event(Event(priority=p)): append, then sort
\* the whole list; id is the order of the enqueue calls
EnqueueEvent(p) ==
    /\ variant = "rpi5" /\ r5.enqueued < MaxEnqueued
    /\ r5' = [r5 EXCEPT
                !.enqueued = @ + 1,
                !.event_queue = SortByPriority(
                    Append(@, [priority |-> p, id |-> r5.enqueued + 1]))]
    /\ UNCHANGED level /\ frame5

\* core/state.py:230-235  dequeue_event(): pop(0), or None
DequeueEvent ==
    /\ variant = "rpi5"
    /\ r5' = IF r5.event_queue /= <<>>
               THEN [r5 EXCEPT !.event_queue = Tail(@),
                               !.got = [called |-> TRUE,
                                        event |-> Head(r5.event_queue),
                                        before |-> r5.event_queue]]
               ELSE [r5 EXCEPT !.got = [called |-> TRUE, event |-> None,
                                        before |-> <<>>]]
    /\ UNCHANGED level /\ frame5

\* core/state.py:242-245  clear_events()
ClearEvents ==
    /\ variant = "rpi5" /\ r5.event_queue /= <<>>
    /\ r5' = [r5 EXCEPT !.event_queue = <<>>]
    /\ UNCHANGED level /\ frame5

NextQueue ==
    \/ \E p \in 0..MaxPriority : EnqueueEvent(p)
    \/ DequeueEvent
    \/ ClearEvents

SpecQueue == InitRpi5 /\ [][NextQueue]_vars

\* ============================================== assistant core: the bus
\* src/assistant/core/state_manager.py and event_bus.py
InitBus == variant = "core" /\ Constructed /\ line = NoBounce

busFrame ==
    UNCHANGED <<variant, mpc, request, level, edges, oled>>
    /\ UNCHANGED gateVars /\ UNCHANGED pollVars /\ UNCHANGED animVars
    /\ UNCHANGED <<cpc, pause_event, lpc, lst, put, press, line, m69,
                   r5, last_call>>

\* state_manager.py:37-43  set_state(new_state), the part under the lock:
\* the same state returns; else the state is stored and the call goes on to
\* emit with the lock released
SetState(t, new_state) ==
    /\ variant = "core" /\ bus.caller[t].pc = "idle"
    /\ bus.calls < MaxCalls
    /\ bus' = IF bus.state = new_state THEN bus
              ELSE [bus EXCEPT !.state = new_state, !.calls = @ + 1,
                               !.caller[t] = [NoCall EXCEPT
                                                !.pc = "emit",
                                                !.old = bus.state,
                                                !.new = new_state]]
    /\ busFrame

\* event_bus.py:48-51  emit: handlers = list(self._handlers[event]) under
\* the lock; at_call notes the subscriptions at this moment
EmitCopy(t) ==
    /\ variant = "core" /\ bus.caller[t].pc = "emit"
    /\ bus' = [bus EXCEPT !.caller[t].pc = "call",
                          !.caller[t].handlers = bus.handlers,
                          !.caller[t].at_call = bus.handlers,
                          !.caller[t].i = 1]
    /\ busFrame

\* the handlers the loop of emit has still to call
ToCall(t) == SubSeq(bus.caller[t].handlers, bus.caller[t].i,
                    Len(bus.caller[t].handlers))

\* a faulty loop without the try: a handler that raises ends the emit
AfterRaiseNone(t) == <<>>

\* event_bus.py:52-56  after a handler that raised (except Exception: pass)
\* the loop goes on with the next one
AfterRaise(t) == Tail(ToCall(t))

\* event_bus.py:52-56  for h in handlers: h(payload), one handler: it
\* returns or raises; after the last one set_state returns (its own
\* listeners, state_manager.py:46-50, are none)
CallHandler(t) ==
    /\ variant = "core" /\ bus.caller[t].pc = "call"
    /\ LET c == bus.caller[t]
       IN IF ToCall(t) = <<>>
            THEN bus' = [bus EXCEPT !.caller[t].pc = "idle"]
            ELSE \E raises \in BOOLEAN :
                   LET rest == IF raises THEN AfterRaise(t)
                                         ELSE Tail(ToCall(t))
                       h1 == Head(ToCall(t)) = "h1"
                   IN bus' = [bus EXCEPT
                         !.last = IF h1 THEN [any |-> TRUE, old |-> c.old,
                                              new |-> c.new]
                                        ELSE @,
                         !.chained = IF h1 /\ bus.last.any
                                       THEN @ /\ c.old = bus.last.new
                                       ELSE @,
                         !.caller[t].called = Append(@, Head(ToCall(t))),
                         !.caller[t].i = Len(c.handlers) + 1 - Len(rest)]
    /\ busFrame

\* event_bus.py:39-41  subscribe(STATE_CHANGED, h), by any thread
Subscribe(h) ==
    /\ variant = "core" /\ Len(bus.handlers) < MaxHandlers
    /\ bus' = [bus EXCEPT !.handlers = Append(@, h)]
    /\ busFrame

\* the list without its first h (list.remove)
Remove(q, h) ==
    LET k == CHOOSE i \in 1..Len(q) :
                 q[i] = h /\ \A j \in 1..(i - 1) : q[j] /= h
    IN SubSeq(q, 1, k - 1) \o SubSeq(q, k + 1, Len(q))

\* event_bus.py:43-46  unsubscribe(STATE_CHANGED, h), by any thread
Unsubscribe(h) ==
    /\ variant = "core"
    /\ \E i \in 1..Len(bus.handlers) : bus.handlers[i] = h
    /\ bus' = [bus EXCEPT !.handlers = Remove(@, h)]
    /\ busFrame

NextStateManager ==
    \/ \E t \in Callers, st \in States : SetState(t, st)
    \/ \E t \in Callers : EmitCopy(t)
    \/ \E t \in Callers : CallHandler(t)

SpecStateManager == InitBus /\ [][NextStateManager]_vars

NextEventBus ==
    \/ NextStateManager
    \/ \E h \in Handlers : Subscribe(h)
    \/ \E h \in Handlers : Unsubscribe(h)

SpecEventBus == InitBus /\ [][NextEventBus]_vars

\* ------------------------------------------- mark69: the eye thread's start
\* eyes.py:285-290  start(): the thread is at the head of _animation_loop
InitEyes == variant = "mark69" /\ ConstructedWith("first", FALSE) /\ line = NoBounce

NextEyes == NextMark69 \/ EyeFirst

SpecEyes == InitEyes /\ [][NextEyes]_vars

\* ================================================================ claims

\* C1: the busy gate is held by at most one feature at a time: object
\* detection, image capture and a voice-chat session are never in progress
\* together, and whichever is in progress holds the gate.
C1_GateExclusive ==
    variant = "anti3" =>
        /\ ~(Detecting /\ ChatSession)
        /\ ~(Capturing /\ ChatSession)
        /\ ~(Detecting /\ Capturing)
        /\ (Detecting \/ Capturing \/ ChatSession) => busy

\* a K2 press was turned away while a hold session holds the gate
C1_Witness ==
    /\ variant = "anti3" /\ pc = "poll" /\ k1_pressed /\ busy
    /\ event.line = K2 /\ event.type = "FALLING"

\* C2: the K2 / K3 handlers hold the gate from the acquisition to their
\* finally clause, whose release frees a held gate (one release, no
\* RuntimeError), on the normal and on the exception path.
C2_SingleEventRelease ==
    [][ /\ (Detecting \/ Capturing) => busy
        /\ (pc \in {"k2_release", "k3_release"} /\ pc' = "poll")
              => (~busy' /\ ~releaseError') ]_vars

\* the detection handler returned with an exception that its except clause
\* could not show (the panel still holds the working indication); gate free
C2_Witness ==
    /\ variant = "anti3" /\ pc = "poll" /\ event = NoEvent
    /\ oled.text = <<"Detecting...">> /\ ~busy /\ ~k1_pressed

\* C3: the gate acquired by an accepted K1 press stays held until the handler
\* of the matching release has run the chat-stop callback, and is released
\* once there; also when chat-start or chat-stop raise.
C3_HoldSpansEvents ==
    [][ /\ ChatSession => busy
        /\ ~releaseError
        /\ (pc = "k1_release" /\ pc' = "poll") => (busy /\ ~busy') ]_vars

\* chat-start failed (its except clause wrote "Error!") and the session still
\* owns the gate while the button is down
C3_Witness ==
    /\ variant = "anti3" /\ pc = "poll" /\ k1_pressed /\ busy
    /\ oled.text = <<"Error!">> /\ ~recording

\* C4: a single-event handler (object detection, image capture) that paused
\* the animator has resumed it when it returns, on every exit path: in anti3
\* when the finally clause hands back to _on_k2_press / _on_k3_press, in
\* src/assistant when _return_to_idle hands back to the caller of handle_event.
C4_SingleEventResumes ==
    [][ /\ (pc' \in {"k2_release", "k3_release"} /\ pc' /= pc) => running'
        /\ (cpc' = "idle" /\ cpc /= "idle") => ~pause_event' ]_vars

\* detection has returned to _on_k2_press with the exception that the
\* show_text("Error!") of its except clause raised, and the animator runs
C4_Witness ==
    /\ variant = "anti3" /\ pc = "k2_release" /\ exc /\ running
    /\ event.line = K2

\* C5: when the chat-stop handler has returned, on each of its branches, the
\* animator is resumed and the gate is free, so the next press acquires it.
C5_ChatStopReturnsToIdle ==
    [][ (pc = "k1_release" /\ pc' = "poll") => (running' /\ AcquireOk') ]_vars

\* after the empty-transcript branch a K2 press acquired the gate
C5_Witness ==
    /\ variant = "anti3" /\ pc = "det_pause" /\ busy /\ running
    /\ oled.text = <<"Could not understand">>

\* C8: a press that came while another button's feature held the gate is
\* rejected and never starts its handler later.
C8_RejectedNotDeferred ==
    ~ /\ variant = "anti3"
      /\ pc \in {"det_pause", "cap_pause", "start_pause"}
      /\ event.holder \notin {"none", event.line}

\* the animation state is Running: the thread runs and _running is set
AnimRunning == apc \notin {"unstarted", "exit"} /\ running /\ alive

\* a step in which main() or a feature handler changes the panel
DispatcherWrites == oled' /= oled /\ oled'.by \in {"main", "feature"}

\* a step in which the animation thread draws a frame
AnimDraws ==
    /\ apc \in {"init", "c1", "c3", "c5", "left_draw", "right_draw", "blink_draw"}
    /\ <<apc, ai>>' /= <<apc, ai>>

\* a step in which the render loop (the while loop of _loop) begins a frame:
\* the first frame of a cycle when the wait returns, a step of a look or a
\* blink when its test passes, the later _center_eyes when they are called
FrameBegins ==
    \/ apc = "woken" /\ apc' = "c1"
    \/ apc \in {"left", "right", "blink"}
         /\ apc' \in {"left_draw", "right_draw", "blink_draw"}
    \/ apc \in {"c3", "c5"} /\ apc' /= apc

\* C6: the display has one owner: the dispatcher (main() and the feature
\* handlers) writes only while the animation state is not Running, and the
\* animator draws only while _running is set.
C6_DisplayOneOwner ==
    [][ /\ DispatcherWrites => ~AnimRunning
        /\ AnimDraws => running ]_vars

\* C7: after pause() has returned the render loop begins no new frame until
\* resume(): a frame begins only with _running set.
C7_NoFrameAfterPause == [][ FrameBegins => running ]_vars

\* the record of a press of b is complete: the button came up and the
\* listener has polled it since
Settled(b) == variant = "listener" /\ press[b].phase = "settled"

\* C9: a press of K1 held at least the threshold (here with the slack of the
\* sampling on top) has, once the listener has seen its release, put exactly
\* one K1_LONG_CHAT_START and one K1_LONG_CHAT_END, whatever K2 and K3 did.
C9_HoldStartedAndEnded ==
    (Settled(K1) /\ press[K1].held >= HoldTicks + Slack)
        => /\ put["K1_LONG_CHAT_START"] = 1
           /\ put["K1_LONG_CHAT_END"] = 1

\* C10: a press of K3 released before the threshold (by more than the slack
\* of the sampling, and longer than that slack) has, once the listener has
\* seen its release, put exactly one K3_SHORT_CAPTURE.
C10_ShortReleaseOnce ==
    (Settled(K3) /\ press[K3].held >= Slack
                 /\ press[K3].held + Slack <= HoldTicks)
        => put["K3_SHORT_CAPTURE"] = 1

\* C11: with contact bounce (flips of the level for less than the debounce
\* interval after the contact moved) one physical press-and-release yields at
\* most one event of each type of its button.
C11_OneEventPerTransition ==
    (variant = "listener" /\ line.button \in Buttons)
        => \A t \in EventsOf(line.button) : put[t] <= 1

\* C12: a pulse on K3 shorter than the debounce interval (the level goes
\* down and comes up again before the interval has passed) puts no event.
C12_ShortPulseNoEvent ==
    (Settled(K3) /\ press[K3].held < DebounceTicks)
        => put["K3_SHORT_CAPTURE"] = 0

\* f1 + ... + fn, the concatenation of the fragments of q
RECURSIVE Concat(_)
Concat(q) == IF q = <<>> THEN <<>> ELSE Head(q) \o Concat(Tail(q))

\* the loop of llm.chat has ended normally and speech is over
ChatStreamed ==
    variant = "anti3" /\ loc.stream = "done" /\ pc /= "stop_speak"

\* there was one streaming update for each fragment, the i-th with f1+...+fi
UpdatesArePrefixes ==
    /\ Len(loc.updates) = Len(loc.tokens)
    /\ \A i \in 1..Len(loc.updates) :
          loc.updates[i] = Concat(SubSeq(loc.tokens, 1, i))

C14_PartialSpokenOnRaise ==
    (variant = "anti3" /\ pc = "stop_finally" /\ loc.stream = "raised"
                       /\ loc.tokens /= <<>>)
        => /\ loc.spoken = <<Strip(loc.full_response)>>
           /\ oled.text /= <<"Error!">>

\* C15: when the generator yields no fragment at all a fixed "no answer"
\* message is handed to speech.
C15_NoAnswerFallback ==
    (ChatStreamed /\ loc.tokens = <<>>) => Len(loc.spoken) = 1

\* src/assistant: a handler that had paused the animator left its try block
\* on an exception before it had a result, and is in its finally clause
RaisedAfterPause ==
    variant = "assistant" /\ cpc = "idle_clear" /\ pause_event
                          /\ loc.labels = "unset"

\* C16: an exception raised in a feature handler after the pause is handled
\* in the handler and a generic error indication is on the display when the
\* handler goes on to its clean-up.
C16_ErrorIndicationRendered ==
    RaisedAfterPause => oled.text = <<"Error!">>

\* the poll thread reads one edge event from the buffer and passes it on
TakesEvent ==
    IgnoredEdge \/ OnK2Press \/ OnK3Press \/ OnK1Press \/ OnK1Release

\* C17: a fault in a feature handler does not end the dispatch loop.  anti3:
\* whenever an exception is on its way out of a handler the poll thread
\* comes back to its poll point with the exception gone, and as long as
\* events keep waiting in the buffer the thread keeps taking events.
\* src/assistant: handle_event returns, so the loop that calls it can pass
\* it the next event.
C17_LoopSurvivesFault ==
    /\ (variant = "anti3" /\ exc) ~> (pc = "poll" /\ ~exc)
    /\ []<>(variant = "anti3" /\ edges /= <<>>) => []<><<TakesEvent>>_vars
    /\ (variant = "assistant" /\ cpc /= "idle") ~> (cpc = "idle")

\* the detection handler starts for a K2 press while the display still shows
\* the working indication of a handler whose exception went up to
\* _on_k2_press (its result and its 'Error!' were never drawn)
C17_Witness ==
    /\ variant = "anti3" /\ pc = "det_pause" /\ ~exc
    /\ oled.text = <<"Detecting...">>

\* mark69: the threads of the feature workers that are running
Working == {i \in 1..MaxWorkers : m69.workers[i] /= "free"}

\* C18: when a feature invocation has ended (no worker runs, nothing is
\* recorded) the state comes back to IDLE.
C18_ReturnsToIdle ==
    (variant = "mark69" /\ Working = {} /\ ~m69.rec) ~> (m69.state = "idle")

\* C19: never two feature workers (voice processing, object detection,
\* image capture) at the same time.
C19_OneWorkerAtATime ==
    variant = "mark69" => Cardinality(Working) <= 1

\* C20: when the calls of pause() and resume() end with a resume() (from
\* some point on _running stays set) the render loop draws frames again and
\* again.
C20_ResumeRestartsDrawing ==
    <>[]running => []<><<AnimDraws>>_vars

\* the last call was a resume() that found the loop blocked in its wait by
\* an earlier pause(); since then the loop has drawn _center_eyes and is in
\* _look_left
C20_Witness ==
    /\ variant = "anti3" /\ last_call.op = "resume"
    /\ last_call.at = "blocked" /\ last_call.paused
    /\ apc = "left_draw" /\ ai > 0 /\ running

\* C21: stop() ends the render loop wherever it is: after the call (and
\* while no other call follows it) the thread comes to its end, also from
\* the wait of a paused loop, and the join of stop() returns.
C21_StopTerminates ==
    /\ (variant = "anti3" /\ last_call.op = "stop")
          ~> (apc = "exit" \/ last_call.op /= "stop")
    /\ (variant = "anti3" /\ last_call.join = "waiting")
          ~> (last_call.join = "returned")

\* stop() found the loop blocked in the wait of a paused animation; the
\* thread has ended and the join has returned
C21_Witness ==
    /\ variant = "anti3" /\ last_call.op = "stop"
    /\ last_call.at = "blocked" /\ last_call.paused
    /\ apc = "exit" /\ last_call.join = "returned"

\* C22: after stop() a later pause() or resume() does not block the loop
\* on its way out: the thread is never left waiting for the event.
C22_CallsAfterStopAreNoOps ==
    (variant = "anti3" /\ ~alive) => apc /= "blocked"

\* C23: an object-detection invocation that called the detector, and whose
\* display calls returned, has shown its result when it goes on to resume
\* the animator: the label that was detected, or that nothing was found
\* (and has spoken it).
C23_DetectionReportsResult ==
    (variant = "anti3" /\ pc = "det_finally" /\ loc.labels /= "unset" /\ ~exc)
        => oled.text \in {<<"Detected: cup">>, <<"No object detected">>}

\* C24: between the return of the chat-start handler and the handler of the
\* release (the poll thread is back at its poll point with the K1 session
\* open) the gate is held and the animator is paused, on every path through
\* the chat-start handler.
C24_SessionKeepsPaused ==
    (variant = "anti3" /\ pc = "poll" /\ k1_pressed) => (busy /\ ~running)

\* the first step of a handler after its pause: the working indication
FirstIndication == {"det_working", "cap_working", "start_clear"}

\* the poll thread has taken a press and is back at its poll point at once:
\* the acquisition failed
PressAbandoned ==
    /\ pc = "poll" /\ pc' = "poll"
    /\ edges' /= edges /\ event'.type = "FALLING"

\* C25: the steps of a feature invocation come in order.  A handler runs
\* only with the gate held; it pauses the animator before its working
\* indication; the gate is released with the animator resumed, by a release
\* that frees it.  A press whose acquisition fails changes nothing: no
\* pause, no display write, no collaborator call.
C25_StepsInOrder ==
    [][ variant = "anti3" =>
          /\ (pc' \in DetPcs \cup CapPcs \cup StartPcs \cup StopPcs) => busy'
          /\ (running /\ ~running') => busy
          /\ (pc' \in FirstIndication /\ pc' /= pc) => (busy' /\ ~running')
          /\ (pc \in {"k1_release", "k2_release", "k3_release"} /\ pc' = "poll")
                => (running /\ busy /\ ~busy')
          /\ PressAbandoned
                => (busy /\ UNCHANGED <<busy, running, oled, loc, recording>>)
      ]_vars

\* an image-capture invocation at its end: the animator is resumed and the
\* gate, still held, is about to be released
C25_Witness ==
    /\ variant = "anti3" /\ pc = "k3_release" /\ event.line = K3
    /\ running /\ busy /\ ~exc /\ oled.text = <<"Error!">>

\* C26: on the event queue K1_LONG_CHAT_START and K1_LONG_CHAT_END come in
\* turn, START first: no END without a START that is still open, no START
\* while one is open.
C26_StartEndAlternate ==
    variant = "listener" => lst.k1_alt

\* a hold has put its START and, at the release, its END
C26_Witness ==
    /\ variant = "listener" /\ lst.k1_last = "END" /\ ~lst.k1_pressed
    /\ put["K1_LONG_CHAT_START"] = 1 /\ put["K1_LONG_CHAT_END"] = 1

\* the listener has noticed that b is down
Noticed(b) == IF b = K1 THEN lst.k1_pressed ELSE lst.k3_pressed

\* C27: K2 does not hold up the classification of K1 and K3: a press of K1
\* or K3 that has lasted the threshold has been sampled by the listener,
\* also while K2 is kept pressed.
C27_OthersSampledWhileK2Held ==
    variant = "listener" =>
        \A b \in {K1, K3} :
            (press[b].phase = "down" /\ press[b].held >= HoldTicks)
                => Noticed(b)

\* C28: while the pins cannot be read the listener puts no event on the
\* queue, also when the reads begin to fail with a button down.
C28_DegradedPutsNothing ==
    [][ (variant = "listener" /\ line.reads /= "ok")
            => \A t \in EventTypes : put'[t] <= put[t] ]_vars

\* C29: no frame render that fails ends the eye thread: the thread stays in
\* its loop and goes on to later frames.
C29_RenderFaultKeepsLoop == variant = "mark69" => m69.eye /= "dead"

\* the poll thread takes a press (FALLING edge) from the buffer
PressTaken ==
    /\ pc = "poll" /\ edges /= <<>> /\ edges' = Tail(edges)
    /\ Head(edges).type = "FALLING"

\* C30: the release of _on_k1_release on a free gate returns to the poll
\* loop and leaves the gate free; after it the next press acquires the gate
\* and a press that follows while it is held does not.
C30_FreeReleaseIsNoOp ==
    [][ variant = "anti3" =>
          /\ (pc = "k1_release" /\ ~busy /\ pc' /= pc)
                => (pc' = "poll" /\ ~busy')
          /\ (releaseError /\ PressTaken)
                => (busy' /\ (pc' = "poll" <=> busy)) ]_vars

\* a free gate was released, and a later press has acquired it
C30_Witness ==
    /\ variant = "anti3" /\ releaseError /\ busy
    /\ pc \in {"det_pause", "cap_pause", "start_pause"}

\* C33: _k1_pressed implies the gate is held; while no handler runs the gate
\* is held exactly when _k1_pressed is set.
C33_GateFollowsK1Flag ==
    variant = "anti3" =>
        /\ k1_pressed => busy
        /\ pc \in {"unstarted", "poll"} => (busy <=> k1_pressed)

\* between the events of a hold session: K1 is down, a press of another
\* button has been turned away, the gate is still the session's
C33_Witness ==
    /\ variant = "anti3" /\ pc = "poll" /\ k1_pressed /\ busy
    /\ event.line \in {K2, K3} /\ event.type = "FALLING"

\* the poll thread takes a K1 release (RISING edge) from the buffer
K1ReleaseTaken ==
    /\ pc = "poll" /\ edges /= <<>> /\ edges' = Tail(edges)
    /\ Head(edges).line = K1 /\ Head(edges).type = "RISING"

\* C34: a K1 release taken while _k1_pressed is clear returns at once: the
\* chat-stop callback is not called and the gate is not released.
C34_UnmatchedReleaseIgnored ==
    [][ (variant = "anti3" /\ K1ReleaseTaken /\ ~k1_pressed)
          => /\ pc' = "poll"
             /\ UNCHANGED <<busy, releaseError, k1_pressed, running,
                            recording, loc, oled>> ]_vars

\* a K1 release was taken with no session pending and was passed over
C34_Witness ==
    /\ variant = "anti3" /\ pc = "poll" /\ ~k1_pressed /\ ~busy
    /\ event.line = K1 /\ event.type = "RISING" /\ ~releaseError

\* C31: the shutdown sequence (animator stopped, then handles released) is
\* run at most once.
C31_ShutdownOnce == variant = "rpi5" => r5.shutdowns <= 1

\* C32: when the release of K1 has been handled the recorder is not
\* recording, whatever was handled since the press.
C32_ReleaseStopsRecording ==
    (variant = "rpi5" /\ r5.recording) => r5.button_states["K1"]

\* the events pending when dequeue_event was last called
Pending == {r5.got.before[i] : i \in 1..Len(r5.got.before)}

\* C38: dequeue_event returns None exactly on an empty queue, and otherwise
\* a pending event of the highest priority, the first enqueued among those.
C38_DequeueHighestFirst ==
    (variant = "rpi5" /\ r5.got.called) =>
        /\ (r5.got.event = None) <=> (Pending = {})
        /\ Pending /= {} =>
             /\ r5.got.event \in Pending
             /\ \A e \in Pending :
                  \/ e.priority < r5.got.event.priority
                  \/ /\ e.priority = r5.got.event.priority
                     /\ e.id >= r5.got.event.id

\* the event returned was enqueued after a pending one of lower priority and
\* before a pending one of its own priority
C38_Witness ==
    /\ variant = "rpi5" /\ r5.got.called
    /\ \E lower, same \in Pending :
         /\ lower.priority < r5.got.event.priority
         /\ lower.id < r5.got.event.id
         /\ same.priority = r5.got.event.priority
         /\ same.id > r5.got.event.id

\* C35: handle_event takes every event type the listener can put to a feature
\* handler: no event goes from the dispatch straight to the error path.
C35_EveryEventDispatched ==
    [][ (variant = "assistant" /\ cpc = "idle" /\ cpc' /= cpc)
          => cpc' /= "idle_clear" ]_vars

\* every set_state call has returned
AllReturned == \A t \in Callers : bus.caller[t].pc = "idle"

\* C36: once all set_state calls have returned, the last STATE_CHANGED event
\* delivered carries the stored state, and each event's "old" is the "new"
\* of the one delivered before it.
C36_NotificationsFollowState ==
    (variant = "core" /\ AllReturned /\ bus.last.any) =>
        /\ bus.last.new = bus.state
        /\ bus.chained

\* C37: an emit calls the handlers subscribed at the moment of the call, each
\* subscription once and in subscription order, whatever raises and whatever
\* is subscribed or unsubscribed meanwhile; nothing reaches the emitter.
C37_EmitCallsSnapshot ==
    variant = "core" =>
        \A t \in Callers :
            /\ bus.caller[t].pc = "call" =>
                 bus.caller[t].called \o ToCall(t) = bus.caller[t].at_call
            /\ bus.caller[t].pc = "idle" =>
                 bus.caller[t].called = bus.caller[t].at_call

\* an emit has returned after calling two handlers, and the subscriptions
\* are no longer those it called
C37_Witness ==
    /\ variant = "core"
    /\ \E t \in Callers :
         /\ bus.caller[t].pc = "idle"
         /\ Len(bus.caller[t].called) = 2
         /\ bus.caller[t].called[1] /= bus.caller[t].called[2]
         /\ bus.handlers /= bus.caller[t].at_call

====
